---- MODULE Spec2Model ----
(***************************************************************************)
(* Model of the aokege package tool (src/src/main.rs): the three commands   *)
(* get / remove / extract acting on a filesystem, with the ZIP extraction   *)
(* loop unzip_from_path modelled entry by entry.                            *)
(*                                                                          *)
(* A filesystem is a function from absolute paths (sequences of component   *)
(* strings, <<>> being "/") to nodes.  An archive entry name is a sequence  *)
(* of characters, split into path components the way std::path does.        *)
(***************************************************************************)
EXTENDS Naturals, Sequences, FiniteSets, TLC

VARIABLES
    remote,   \* the response body the server holds for the package
    fs,       \* the filesystem
    pc,       \* position of the running command ("idle" when none runs)
    cmd,      \* the command being run, or the last one run
    arch,     \* the entries of the archive opened by unzip_from_path
    idx,      \* loop variable i of unzip_from_path (1-based)
    result,   \* outcome of the last finished command
    prev,     \* the command that finished before cmd, with its outcome
    fs0,      \* filesystem when cmd started
    fsx,      \* filesystem when unzip_from_path was entered
    fsi       \* filesystem before the entry being processed / that failed

vars == <<remote, fs, pc, cmd, arch, idx, result, prev, fs0, fsx, fsi>>

----------------------------------------------------------------------------
(* Bounds of the model *)

MaxEntries == 2

----------------------------------------------------------------------------
(* Paths *)

\* The process's working directory, against which "./packages" resolves.
Cwd == <<"w">>

\* const BASE_DIR: &str = "./packages";
BASE_DIR == Cwd \o <<"packages">>

Packages == {"p"}

\* values of the optional --file argument; NoFile is None
NoFile == "<none>"
Filenames == {NoFile, "p.zip", "o.zip"}

\* format!("{package}.zip")
DefaultZipName(package) == package \o ".zip"

\* Path::new(BASE_DIR).join(package)
InstallDir(package) == BASE_DIR \o <<package>>

\* Path::new(BASE_DIR).join(format!("{package}.zip")) in unzip_package
ExtractZipPath(package) == BASE_DIR \o <<DefaultZipName(package)>>

\* filename.unwrap_or(&default_zip_name), Path::new(BASE_DIR).join(zip_name)
GetZipPath(package, filename) ==
    BASE_DIR \o << IF filename = NoFile THEN DefaultZipName(package) ELSE filename >>

IsPrefix(p, q) == Len(p) <= Len(q) /\ SubSeq(q, 1, Len(p)) = p

Under(p, root) == IsPrefix(root, p) /\ p # root

Front(s) == SubSeq(s, 1, Len(s) - 1)

----------------------------------------------------------------------------
(* Entry names: strings as sequences of characters *)

RECURSIVE SplitAt(_, _, _)
\* name.split('/') with the pieces as strings; cur is the piece being read
SplitAt(name, k, cur) ==
    IF k > Len(name) THEN <<cur>>
    ELSE IF name[k] = "/" THEN <<cur>> \o SplitAt(name, k + 1, "")
    ELSE SplitAt(name, k + 1, cur \o name[k])

\* Path::components(): empty pieces and "." are dropped, ".." is ParentDir
Components(name) ==
    SelectSeq(SplitAt(name, 1, ""), LAMBDA c : c # "" /\ c # ".")

\* Path::is_absolute() / has_root
IsAbsolute(name) == Len(name) > 0 /\ name[1] = "/"

\* ZipFile::is_dir(): the name ends with '/'
EntryIsDir(name) == Len(name) > 0 /\ name[Len(name)] = "/"

----------------------------------------------------------------------------
(* Filesystem primitives *)

DirNode == [kind |-> "dir"]
FileNode(bytes) == [kind |-> "file", data |-> bytes]
ZipNode(entries) == [kind |-> "zip", entries |-> entries]

Exists(f, p) == p \in DOMAIN f
IsDir(f, p) == p \in DOMAIN f /\ f[p].kind = "dir"
IsFile(f, p) == p \in DOMAIN f /\ f[p].kind # "dir"

Put(f, p, node) == [q \in DOMAIN f \cup {p} |-> IF q = p THEN node ELSE f[q]]

RECURSIVE Walk(_, _, _)
\* std::fs::create_dir_all on the path cur/comps, cur an existing directory:
\* every missing component is created, ".." steps to the parent, and a
\* component that exists as a file fails the call, keeping what was created.
Walk(f, cur, comps) ==
    IF comps = <<>> THEN [fs |-> f, ok |-> TRUE, at |-> cur]
    ELSE IF Head(comps) = ".."
         THEN Walk(f, IF cur = <<>> THEN cur ELSE Front(cur), Tail(comps))
    ELSE LET p == Append(cur, Head(comps)) IN
         IF ~Exists(f, p) THEN Walk(Put(f, p, DirNode), p, Tail(comps))
         ELSE IF IsDir(f, p) THEN Walk(f, p, Tail(comps))
         ELSE [fs |-> f, ok |-> FALSE, at |-> cur]

\* output_dir.join(file.name()): an absolute name replaces output_dir
OutPath(output_dir, name) ==
    IF IsAbsolute(name) THEN Components(name)
    ELSE output_dir \o Components(name)

\* std::fs::create_dir_all(&outpath)
CreateDirAll(f, comps) == Walk(f, <<>>, comps)

Prefixes(s) == { SubSeq(s, 1, n) : n \in 0..Len(s) }

\* what std::io::copy may have written when it stops: all of the entry's
\* bytes, or, when the entry's data is corrupt, any prefix of them
Copied(e) == IF e.bad = "data" THEN Prefixes(e.data) ELSE {e.data}

\* mutation: the destination is opened for appending, not truncated
CreateAndCopy_Append(f, dir, c, e) ==
    IF c = ".." \/ IsDir(f, Append(dir, c))
    THEN {[fs |-> f, ok |-> FALSE, err |-> "err_fs"]}
    ELSE { [fs |-> Put(f, Append(dir, c),
                       FileNode((IF IsFile(f, Append(dir, c))
                                    /\ f[Append(dir, c)].kind = "file"
                                 THEN f[Append(dir, c)].data ELSE <<>>) \o bytes)),
            ok |-> e.bad # "data",
            err |-> IF e.bad = "data" THEN "err_archive" ELSE "none"]
           : bytes \in Copied(e) }

\* File::create(&outpath) then std::io::copy(&mut file, &mut outfile), with
\* dir the resolved parent directory and c the last component of outpath
CreateAndCopy(f, dir, c, e) ==
    IF c = ".." \/ IsDir(f, Append(dir, c))
    THEN {[fs |-> f, ok |-> FALSE, err |-> "err_fs"]}
    ELSE { [fs |-> Put(f, Append(dir, c), FileNode(bytes)),
            ok |-> e.bad # "data",
            err |-> IF e.bad = "data" THEN "err_archive" ELSE "none"]
           : bytes \in Copied(e) }

\* mutation: a file entry's parent directory is not created but assumed to
\* exist from an earlier directory entry
ExtractEntry_AssumeParent(f, output_dir, e) ==
    LET outpath == OutPath(output_dir, e.name) IN
    IF e.bad = "header"
    THEN {[fs |-> f, ok |-> FALSE, err |-> "err_archive"]}
    ELSE IF EntryIsDir(e.name)
    THEN LET w == CreateDirAll(f, outpath) IN
         {[fs |-> w.fs, ok |-> w.ok, err |-> IF w.ok THEN "none" ELSE "err_fs"]}
    ELSE IF outpath = <<>> \/ Components(e.name) = <<>>
            \/ ".." \in {outpath[k] : k \in 1..Len(outpath)}
            \/ ~IsDir(f, Front(outpath))
         THEN {[fs |-> f, ok |-> FALSE, err |-> "err_fs"]}
         ELSE CreateAndCopy(f, Front(outpath), outpath[Len(outpath)], e)

\* One iteration of the loop of unzip_from_path on entry e: the set of
\* outcomes [fs, ok, err] it can have.
ExtractEntry(f, output_dir, e) ==
    LET outpath == OutPath(output_dir, e.name) IN
    IF e.bad = "header"
    THEN {[fs |-> f, ok |-> FALSE, err |-> "err_archive"]}
    ELSE IF EntryIsDir(e.name)
    THEN LET w == CreateDirAll(f, outpath) IN
         {[fs |-> w.fs, ok |-> w.ok, err |-> IF w.ok THEN "none" ELSE "err_fs"]}
    ELSE LET w == IF outpath = <<>> THEN [fs |-> f, ok |-> TRUE, at |-> <<>>]
                  ELSE CreateDirAll(f, Front(outpath)) IN
         IF ~w.ok \/ Components(e.name) = <<>>
         THEN {[fs |-> w.fs, ok |-> FALSE, err |-> "err_fs"]}
         ELSE CreateAndCopy(w.fs, w.at, outpath[Len(outpath)], e)

\* mutation: only what is inside the directory is deleted
RemoveDirAll_KeepsDir(f, dir) == [q \in {r \in DOMAIN f : ~Under(r, dir)} |-> f[q]]

\* fs::remove_dir_all(&dir)
RemoveDirAll(f, dir) == [q \in {r \in DOMAIN f : ~IsPrefix(dir, r)} |-> f[q]]

----------------------------------------------------------------------------
(* Inputs: the archives a server may hold *)

\* entry names, as the characters stored in the archive
NameA == <<"a">>
NameB == <<"b">>
NameBDir == <<"b", "/">>
NameBA == <<"b", "/", "a">>
NameUpA == <<".", ".", "/", "a">>
NameAbsA == <<"/", "a">>

\* an entry: its stored name, its bytes, and whether it can be read
\* ("header": by_index fails; "data": the compressed stream is corrupt)
Entry(name, data, bad) == [name |-> name, data |-> data, bad |-> bad]

Entries ==
    { Entry(NameA, <<1>>, "none"),
      Entry(NameA, <<2>>, "none"),
      Entry(NameA, <<2>>, "data"),
      Entry(NameA, <<1>>, "header"),
      Entry(NameB, <<1>>, "none"),
      Entry(NameBA, <<2>>, "none"),
      Entry(NameBA, <<1>>, "data"),
      Entry(NameBDir, <<>>, "none"),
      Entry(NameBDir, <<>>, "header"),
      Entry(NameUpA, <<1>>, "none"),
      Entry(NameAbsA, <<1>>, "none") }

Archives == UNION { [1..n -> Entries] : n \in 0..MaxEntries }

\* a body that is no ZIP container
Garbage == FileNode(<<0>>)

Bodies == { ZipNode(a) : a \in Archives } \cup { Garbage }

NetOutcomes == { "ok", "transport", "status", "body" }

----------------------------------------------------------------------------
(* The commands *)

NoCmd == [op |-> "none", package |-> "none", file |-> NoFile,
          reqs |-> 0, net |-> "none", opened |-> FALSE]

InitFs == (<<>> :> DirNode) @@ (Cwd :> DirNode)

Init ==
    /\ remote \in Bodies
    /\ fs = InitFs
    /\ pc = "idle"
    /\ cmd = NoCmd
    /\ arch = <<>>
    /\ idx = 0
    /\ result = "none"
    /\ prev = [op |-> "none", package |-> "none", result |-> "none"]
    /\ fs0 = InitFs
    /\ fsx = InitFs
    /\ fsi = InitFs

\* a command starts: main() dispatches on cli.command
Start(op, package, filename) ==
    /\ pc = "idle"
    /\ prev' = [op |-> cmd.op, package |-> cmd.package, result |-> result]
    /\ cmd' = [op |-> op, package |-> package, file |-> filename,
               reqs |-> 0, net |-> "none", opened |-> FALSE]
    /\ fs0' = fs
    /\ fsx' = fs
    /\ fsi' = fs
    /\ arch' = <<>>
    /\ idx' = 0

\* the command returns r (Err(..) propagates out of main, or Ok(()))
Return(r) == pc' = "idle" /\ result' = r

\* install_package up to the request: create_dir_all(BASE_DIR)
GetBegin(package, filename) ==
    /\ Start("get", package, filename)
    /\ LET w == CreateDirAll(fs, BASE_DIR) IN
       /\ fs' = w.fs
       /\ IF w.ok THEN pc' = "request" /\ result' = result
                  ELSE Return("err_fs")
    /\ UNCHANGED remote

\* mutation: the archive file is created before the request is made
Fetch_CreateFirst(f, zip_path, outcome, body) ==
    IF IsDir(f, zip_path) \/ ~IsDir(f, Front(zip_path))
    THEN [fs |-> f, ret |-> "err_fs"]
    ELSE IF outcome # "ok"
    THEN [fs |-> Put(f, zip_path, FileNode(<<>>)), ret |-> "err_network"]
    ELSE [fs |-> Put(f, zip_path, body), ret |-> "ok"]

\* install_package from the request to the saved archive: reqwest::get(&url),
\* the status check, res.bytes(), File::create(&zip_path), write_all(&bytes).
\* Nothing is written unless the whole body arrived.
Fetch(f, zip_path, outcome, body) ==
    IF outcome # "ok" THEN [fs |-> f, ret |-> "err_network"]
    ELSE IF IsDir(f, zip_path) \/ ~IsDir(f, Front(zip_path))
    THEN [fs |-> f, ret |-> "err_fs"]
    ELSE [fs |-> Put(f, zip_path, body), ret |-> "ok"]

GetRequest(outcome) ==
    /\ pc = "request"
    /\ cmd' = [cmd EXCEPT !.reqs = @ + 1, !.net = outcome]
    /\ LET r == Fetch(fs, GetZipPath(cmd.package, cmd.file), outcome, remote) IN
       /\ fs' = r.fs
       /\ IF r.ret = "ok" THEN pc' = "open" /\ result' = result
                          ELSE Return(r.ret)
    /\ UNCHANGED <<remote, arch, idx, prev, fs0, fsx, fsi>>

\* mutation: the archive is not looked for before it is opened
ArchiveDownloaded_NoCheck(f, package) == TRUE

\* the guard of unzip_package: zip_path.exists()
ArchiveDownloaded(f, package) == Exists(f, ExtractZipPath(package))

\* unzip_package up to the call of unzip_from_path
ExtractBegin(package) ==
    /\ Start("extract", package, NoFile)
    /\ IF ~ArchiveDownloaded(fs, package)
       THEN Return("err_no_archive")
       ELSE pc' = "open" /\ result' = result
    /\ UNCHANGED <<remote, fs>>

\* the archive path the running command hands to unzip_from_path
ZipPathOf(c) ==
    IF c.op = "get" THEN GetZipPath(c.package, c.file)
    ELSE ExtractZipPath(c.package)

\* unzip_from_path: File::open(zip_path) and ZipArchive::new(file)
UnzipOpen ==
    /\ pc = "open"
    /\ LET zip_path == ZipPathOf(cmd) IN
       IF Exists(fs, zip_path) /\ fs[zip_path].kind = "zip"
       THEN /\ arch' = fs[zip_path].entries
            /\ idx' = 1
            /\ cmd' = [cmd EXCEPT !.opened = TRUE]
            /\ pc' = "loop"
            /\ result' = result
       ELSE /\ Return("err_archive")
            /\ UNCHANGED <<arch, idx, cmd>>
    /\ fsx' = fs
    /\ fsi' = fs
    /\ UNCHANGED <<remote, fs, prev, fs0>>

\* mutation: a failed extraction removes the target directory
OnEntryError_Rollback(f, output_dir) ==
    [q \in {r \in DOMAIN f : ~IsPrefix(output_dir, r)} |-> f[q]]

\* what unzip_from_path leaves on disk when an entry fails: the ? operator
\* returns at once, nothing is undone
OnEntryError(f, output_dir) == f

\* unzip_from_path: one iteration of `for i in 0..archive.len()`
UnzipEntry ==
    /\ pc = "loop"
    /\ idx <= Len(arch)
    /\ \E out \in ExtractEntry(fs, InstallDir(cmd.package), arch[idx]) :
         /\ fsi' = fs
         /\ IF out.ok
            THEN /\ fs' = out.fs
                 /\ idx' = idx + 1
                 /\ pc' = "loop"
                 /\ result' = result
            ELSE /\ fs' = OnEntryError(out.fs, InstallDir(cmd.package))
                 /\ idx' = idx
                 /\ Return(out.err)
    /\ UNCHANGED <<remote, cmd, arch, prev, fs0, fsx>>

\* unzip_from_path: the loop is over, Ok(()) goes back to the command
UnzipDone ==
    /\ pc = "loop"
    /\ idx > Len(arch)
    /\ Return("ok")
    /\ UNCHANGED <<remote, fs, cmd, arch, idx, prev, fs0, fsx, fsi>>

\* mutation: a package that is not installed has its archive deleted
Uninstall_DropsArchive(f, package) ==
    LET dir == InstallDir(package) IN
    IF Exists(f, dir) /\ IsDir(f, dir)
    THEN [fs |-> RemoveDirAll(f, dir), ret |-> "removed"]
    ELSE [fs |-> [q \in DOMAIN f \ {ExtractZipPath(package)} |-> f[q]],
          ret |-> "not_found"]

\* uninstall_package: what it leaves on disk and what it reports
Uninstall(f, package) ==
    LET dir == InstallDir(package) IN
    IF Exists(f, dir) /\ IsDir(f, dir)
    THEN [fs |-> RemoveDirAll(f, dir), ret |-> "removed"]
    ELSE [fs |-> f, ret |-> "not_found"]

Remove(package) ==
    /\ Start("remove", package, NoFile)
    /\ LET r == Uninstall(fs, package) IN
       fs' = r.fs /\ Return(r.ret)
    /\ UNCHANGED remote

Next ==
    \/ \E p \in Packages, f \in Filenames : GetBegin(p, f)
    \/ \E o \in NetOutcomes : GetRequest(o)
    \/ \E p \in Packages : ExtractBegin(p)
    \/ UnzipOpen
    \/ UnzipEntry
    \/ UnzipDone
    \/ \E p \in Packages : Remove(p)

Spec == Init /\ [][Next]_vars

----------------------------------------------------------------------------
(* Vocabulary of the properties *)

RECURSIVE Normalize(_, _)
\* lexical normalisation of a component list: ".." cancels the component
\* before it (and is dropped at "/"); acc is the normalised part so far
Normalize(acc, comps) ==
    IF comps = <<>> THEN acc
    ELSE IF Head(comps) = ".."
         THEN Normalize(IF acc = <<>> THEN acc ELSE Front(acc), Tail(comps))
    ELSE Normalize(Append(acc, Head(comps)), Tail(comps))

\* where an entry name lands when joined to root
Resolved(root, name) == Normalize(<<>>, OutPath(root, name))

\* the entry's path, joined to root, resolves outside root
Escapes(root, name) == ~IsPrefix(root, Resolved(root, name))

\* a safe relative name: not absolute, at least one component, no ".."
SafeName(name) ==
    /\ ~IsAbsolute(name)
    /\ Components(name) # <<>>
    /\ \A k \in 1..Len(Components(name)) : Components(name)[k] # ".."

\* a valid archive of safe names: every entry is readable and safe, and the
\* entries describe a tree (no file entry's path is the path, or an ancestor
\* of the path, of another entry)
ValidArchive(a) ==
    /\ \A k \in 1..Len(a) : a[k].bad = "none" /\ SafeName(a[k].name)
    /\ \A j, k \in 1..Len(a) :
         (j # k /\ ~EntryIsDir(a[j].name))
            => ~IsPrefix(Components(a[j].name), Components(a[k].name))

\* the tree an archive describes under root: its files with their bytes, its
\* directories, and the directories on the way to them
ExpectedTree(a, root) ==
    { <<root \o Components(a[k].name), FileNode(a[k].data)>>
        : k \in {j \in 1..Len(a) : ~EntryIsDir(a[j].name)} }
    \cup
    { <<root \o Components(a[k].name), DirNode>>
        : k \in {j \in 1..Len(a) : EntryIsDir(a[j].name)} }
    \cup
    UNION { { <<root \o SubSeq(Components(a[k].name), 1, n), DirNode>>
                : n \in 1..(Len(Components(a[k].name)) - 1) }
            : k \in 1..Len(a) }

\* what is on disk strictly below root
TreeUnder(f, root) == { <<q, f[q]>> : q \in {r \in DOMAIN f : Under(r, root)} }

\* what is on disk at and below root
TreeAt(f, root) == { <<q, f[q]>> : q \in {r \in DOMAIN f : IsPrefix(root, r)} }

\* the target root of the running (or last) command
Root == InstallDir(cmd.package)

\* the last command has returned
Returned == pc = "idle" /\ cmd.op # "none"

\* unzip_from_path was entered by the last command and has returned
Extracted == Returned /\ cmd.opened

\* nothing is in the target when unzip_from_path is entered
EmptyTarget == ~IsFile(fsx, Root) /\ \A q \in DOMAIN fsx : ~Under(q, Root)

----------------------------------------------------------------------------
(* Properties *)

\* C1: when the opened archive holds an entry that resolves outside the
\* target root, extraction ends with a path-traversal error, and at no time
\* during or after it is a path outside the root created or changed.
C1_TraversalRejected ==
    (cmd.opened /\ \E k \in 1..Len(arch) : Escapes(Root, arch[k].name))
      => /\ Extracted => result = "err_traversal"
         /\ \A q \in DOMAIN fs :
               ~IsPrefix(Root, q) => (q \in DOMAIN fsx /\ fs[q] = fsx[q])

\* C2: extracting a valid archive of safe names, in whatever order it lists
\* them, into an empty target succeeds and leaves under the target exactly
\* the archive's tree.
C2_ExactTree ==
    (Extracted /\ ValidArchive(arch) /\ EmptyTarget)
      => /\ result = "ok"
         /\ TreeUnder(fs, Root) = ExpectedTree(arch, Root)
         /\ (arch # <<>> => IsDir(fs, Root))

\* C2 witness: a file entry listed before the directory entry of its parent
C2_Witness ==
    /\ Extracted /\ ValidArchive(arch) /\ EmptyTarget /\ result = "ok"
    /\ Len(arch) = 2
    /\ arch[1].name = NameBA /\ arch[2].name = NameBDir

\* C3: remove of a package whose install directory does not exist as a
\* directory reports not-found as a normal outcome and changes nothing on disk.
C3_RemoveAbsent ==
    (Returned /\ cmd.op = "remove" /\ ~IsDir(fs0, Root))
      => result = "not_found" /\ fs = fs0

\* C3 witness: not-found is reported while a downloaded archive lies on disk
C3_Witness ==
    /\ Returned /\ cmd.op = "remove" /\ result = "not_found"
    /\ IsFile(fs, ExtractZipPath(cmd.package))

\* C4: remove of an installed package deletes the install directory with all
\* beneath it and reports success; a remove right after it reports not-found.
C4_RemoveInstalled ==
    /\ (Returned /\ cmd.op = "remove" /\ IsDir(fs0, Root))
         => /\ result = "removed"
            /\ \A q \in DOMAIN fs : ~IsPrefix(Root, q)
    /\ (Returned /\ cmd.op = "remove" /\ prev.op = "remove"
          /\ prev.package = cmd.package /\ prev.result = "removed")
         => result = "not_found"

\* C4 witness: the second of two removes in a row, the first having removed
C4_Witness ==
    /\ Returned /\ cmd.op = "remove" /\ result = "not_found"
    /\ prev.op = "remove" /\ prev.package = cmd.package /\ prev.result = "removed"

\* C5: extract of a package with no archive at <base>/<package>.zip fails with
\* not-found at once and creates nothing: the filesystem is as it was.
C5_ExtractWithoutArchive ==
    (cmd.op = "extract" /\ ~Exists(fs0, ExtractZipPath(cmd.package)))
      => pc = "idle" /\ result = "err_no_archive" /\ fs = fs0 /\ ~cmd.opened

\* C5 witness: extract fails not-found with not even the base directory there
C5_Witness ==
    /\ pc = "idle" /\ cmd.op = "extract" /\ result = "err_no_archive"
    /\ ~Exists(fs, BASE_DIR) /\ ~Exists(fs, Root)

\* C6: an extraction run right after a successful extraction of the same
\* package succeeds and leaves the target tree as the first one left it.
C6_Idempotent ==
    (Extracted /\ prev.op \in {"get", "extract"} /\ prev.result = "ok"
       /\ prev.package = cmd.package)
      => result = "ok" /\ TreeAt(fs, Root) = TreeAt(fs0, Root)

\* C6 witness: a second extraction over a tree that holds a file
C6_Witness ==
    /\ Extracted /\ cmd.op = "extract" /\ result = "ok"
    /\ prev.op \in {"get", "extract"} /\ prev.result = "ok"
    /\ prev.package = cmd.package
    /\ \E q \in DOMAIN fs0 : Under(q, Root) /\ IsFile(fs0, q)

\* C7: once get has saved the download, the archive is where extract looks
\* for it, whatever the filename override.
C7_ArchiveWhereExtractLooks ==
    (cmd.op = "get" /\ pc \in {"open", "loop"})
      => /\ IsFile(fs, ExtractZipPath(cmd.package))
         /\ ArchiveDownloaded(fs, cmd.package)

\* C8: a get or extract of a valid archive that returns success leaves the
\* install directory on disk, and a remove right after it reports removal.
C8_SuccessMeansInstalled ==
    /\ (Returned /\ cmd.op \in {"get", "extract"} /\ result = "ok"
          /\ ValidArchive(arch))
         => IsDir(fs, Root)
    /\ (Returned /\ cmd.op = "remove" /\ prev.op \in {"get", "extract"}
          /\ prev.result = "ok" /\ prev.package = cmd.package
          /\ remote.kind = "zip" /\ ValidArchive(remote.entries))
         => result = "removed"

\* the paths entry name passes through on its way from "/" to its destination
EntryPaths(root, name) ==
    { Normalize(<<>>, SubSeq(OutPath(root, name), 1, n))
        : n \in 0..Len(OutPath(root, name)) }

\* unzip_from_path returned an error from its loop, at entry idx
FailedAtEntry == Extracted /\ result # "ok"

\* a path written by the entries before the failing one
WrittenBefore(q) == q \in DOMAIN fsi /\ (q \notin DOMAIN fsx \/ fsx[q] # fsi[q])

\* what changed while the failing entry was processed is on that entry's path
OnlyFailingEntryActed ==
    \A q \in DOMAIN fs :
       (q \notin DOMAIN fsi \/ fs[q] # fsi[q])
          => q \in EntryPaths(Root, arch[idx].name)

\* C9 as stated: when extraction fails at an entry, everything written for the
\* entries before it is on disk unchanged, and no later entry is processed.
C9_EarlierEntriesUnchanged ==
    FailedAtEntry
      => /\ \A q \in DOMAIN fsi :
               WrittenBefore(q) => (q \in DOMAIN fs /\ fs[q] = fsi[q])
         /\ idx \in 1..Len(arch)
         /\ OnlyFailingEntryActed

\* C9 amended: when extraction fails at an entry, everything written for the
\* entries before it is still on disk, unchanged but for the file at the
\* failing entry's own destination when that entry's data could not be read
\* to the end (it is truncated and holds a prefix of the entry's bytes); no
\* later entry is processed.
C9_NoRollback ==
    FailedAtEntry
      => /\ \A q \in DOMAIN fsi :
               WrittenBefore(q)
                 => /\ q \in DOMAIN fs
                    /\ \/ fs[q] = fsi[q]
                       \/ /\ arch[idx].bad = "data"
                          /\ q = Resolved(Root, arch[idx].name)
                          /\ fs[q].kind = "file"
                          /\ fs[q].data \in Prefixes(arch[idx].data)
         /\ idx \in 1..Len(arch)
         /\ OnlyFailingEntryActed

\* C9 witness: the second entry fails after the first one wrote a file
C9_Witness ==
    /\ FailedAtEntry /\ idx = 2
    /\ \E q \in DOMAIN fsi : WrittenBefore(q) /\ IsFile(fsi, q) /\ fs[q] = fsi[q]

\* C10: a get whose request fails in transport or by status returns a network
\* error after one request, never enters extraction, and leaves every path but
\* the base directory as it was.
C10_NetworkFailure ==
    (cmd.op = "get" /\ cmd.net \in {"transport", "status"})
      => /\ pc = "idle" /\ result = "err_network"
         /\ cmd.reqs = 1
         /\ ~cmd.opened /\ arch = <<>>
         /\ \A q \in (DOMAIN fs \cup DOMAIN fs0) \ {BASE_DIR} :
               q \in DOMAIN fs /\ q \in DOMAIN fs0 /\ fs[q] = fs0[q]
         /\ IsDir(fs, BASE_DIR)

\* C10 witness: the request fails by status with an archive and an installed
\* file of the package already on disk
C10_Witness ==
    /\ cmd.op = "get" /\ cmd.net = "status" /\ pc = "idle"
    /\ IsFile(fs0, GetZipPath(cmd.package, cmd.file))
    /\ \E q \in DOMAIN fs0 : Under(q, Root) /\ IsFile(fs0, q)

====
